---- MODULE Spec2Model ----
(***************************************************************************)
(* QtLoader (src/gui_lifecycle/qtloader.js): the lifecycle of one          *)
(* Emscripten application module in a host page.                           *)
(*                                                                         *)
(* Every step of the model is one task of the page's event loop, run to    *)
(* completion: a call the embedding page makes (loadEmscriptenModule), a   *)
(* callback the hosted module makes (module.setStatus, module.onAbort,     *)
(* module.quit) or one expired window.setTimeout(..., 0) timer running     *)
(* handleStatusChange.  Handlers that run with no timer in between form    *)
(* one synchronous burst.                                                  *)
(*                                                                         *)
(* The functions of the source are operators from a record m of the        *)
(* mutable state to the record after the call, so that a handler that      *)
(* calls another (handleStatusChange -> config.restart ->                  *)
(* loadEmscriptenModule -> setStatus) is one step.                         *)
(*                                                                         *)
(* The host is part of the state (WebAssembly, WebGL, the children of the   *)
(* container elements), and so is a further QtLoader of the same page as    *)
(* far as it acts on the page globals restartCount, self.error and          *)
(* self.module.                                                            *)
(*                                                                         *)
(* Environment taken as given: the global Module object the loader writes  *)
(* its preRun hook to exists, and the exception handed to module.quit is   *)
(* an object.                                                              *)
(***************************************************************************)
EXTENDS Integers, Sequences, FiniteSets, TLC

VARIABLES
    config,          \* the configuration object after the constructor normalised it
    wasm,            \* host: the global WebAssembly object exists
    webGL,           \* host: canvas.getContext("webgl") currently succeeds
    status,          \* publicAPI.status
    crashed,         \* publicAPI.crashed
    exitCode,        \* publicAPI.exitCode (NoCode: undefined)
    exitText,        \* publicAPI.exitText
    committedStatus, \* committedStatus
    restartCount,    \* the page-global restartCount (self.restartCount)
    error,           \* self.error
    module,          \* this loader has created a module object and handed it to the factory
    selfModule,      \* self.module: the loader whose module object the page global holds
    further,         \* a further QtLoader of the page, as far as it acts on the page globals
    timers,          \* pending setTimeout(handleStatusChange, 0) tasks, oldest first
    containers,      \* the children of each element of config.containerElements
    burstOpen,       \* observation: the current burst has already scheduled a timer
    commits,         \* observation: reactions that committed since the status last changed
    restartLoads,    \* observation: factory invocations made by config.restart
    ev               \* observation: what the last step did

vars == <<config, wasm, webGL, status, crashed, exitCode, exitText,
          committedStatus, restartCount, error, module, selfModule, further,
          timers, containers, burstOpen, commits, restartLoads, ev>>

----------------------------------------------------------------------------
(* Bounds of the model *)

MaxTimers == 2

MaxRestarts == 2

MaxContainers == 2

MaxChildren == 3

(* Program constants *)

DefaultRestartLimit == 10

NoCode == -1

Undefined == "undefined"

ErrWasm == "Error: WebAssembly is not supported"

ErrWebGL == "Error: WebGL is not supported"

ErrHalt == "Error: This application has crashed too many times and has been disabled. Reload the page to try again."

Statuses == {"Created", "Loading", "Running", "Exited", "Error"}

RestartModes == {"DoNotRestart", "RestartOnExit", "RestartOnCrash"}

RestartTypes == {"RestartModule", "ReloadPage"}

ShowNames == {"showError", "showLoader", "showCanvas", "showExit"}

----------------------------------------------------------------------------
(* Configuration: what the page passes to QtLoader(config), and the         *)
(* constructor's normalisation of it.  A restartLimit of NoCode stands for *)
(* an absent key.                                                          *)

RawConfigs ==
    [ restartMode : RestartModes \cup {Undefined},
      restartType : RestartTypes,
      restartLimit : {NoCode} \cup 0..(MaxRestarts - 1),
      containerElements : BOOLEAN,
      shows : {{}, ShowNames},
      statusChanged : BOOLEAN ]

\* JavaScript's a || b on a number: 0 and undefined are falsy
OrDefault(value, default) ==
    IF value = NoCode \/ value = 0 THEN default ELSE value

Normalize(raw) ==
    [ restartMode |-> IF raw.restartMode = Undefined THEN "DoNotRestart" ELSE raw.restartMode,
      restartType |-> raw.restartType,
      restartLimit |-> OrDefault(raw.restartLimit, DefaultRestartLimit),
      containerElements |-> raw.containerElements,
      shows |-> IF raw.containerElements THEN ShowNames ELSE raw.shows,
      statusChanged |-> raw.statusChanged,
      custom |-> raw.shows,             \* observation: the callbacks the page supplied
      supplied |-> raw.restartLimit ]   \* observation: the restartLimit the page supplied

----------------------------------------------------------------------------
(* The mutable state as one record, and the observation of a step *)

EvNone(op) ==
    [ op |-> op,
      code |-> NoCode,         \* the code of a clean module.quit
      text |-> Undefined,      \* the text module.onAbort was called with
      extra |-> FALSE,         \* the timer was not the first its burst scheduled
      last |-> "none",         \* the last status of the burst that scheduled the timer,
                               \* "overtaken" when a handler ran after that burst
      committed |-> "none",    \* the status this reaction committed
      render |-> "none",       \* the content function the dispatcher invoked
      show |-> "none",         \* the presentation callback invoked
      calls |-> 0,             \* the number of times it was invoked
      decision |-> "none",     \* config.restart was called: restart | halt
      factory |-> FALSE,       \* createModule(module) was called
      reload |-> FALSE,        \* location.reload() was called
      notified |-> "none",     \* the argument statusChanged was called with
      threw |-> FALSE ]        \* the handler ended in an uncaught TypeError

Machine(op) ==
    [ status |-> status, crashed |-> crashed, exitCode |-> exitCode,
      exitText |-> exitText, committedStatus |-> committedStatus,
      restartCount |-> restartCount, error |-> error, module |-> module,
      selfModule |-> selfModule,
      timers |-> timers, containers |-> containers, burstOpen |-> burstOpen,
      commits |-> commits, restartLoads |-> restartLoads, ev |-> EvNone(op) ]

\* A timer is scheduled "open": its burst is still running.  The first
\* reaction to run after that ends the burst and records the burst's last
\* status in the timer; a handler that runs later, before the timer, overtakes it.
Close(t) == IF t.last = "open" THEN [t EXCEPT !.last = status] ELSE t

Overtake(t) == IF t.last = "open" THEN t ELSE [t EXCEPT !.last = "overtaken"]

\* the state a handler called by the page or by the module starts from
Handler(op) ==
    [Machine(op) EXCEPT !.timers = [i \in 1..Len(timers) |-> Overtake(timers[i])]]

\* the step that takes the state to the record a handler returned; the
\* record is bound once, as the value the handler call returned
Becomes(after) ==
    \E m \in {after} :
        /\ Len(m.timers) <= MaxTimers
        /\ m.restartCount <= MaxRestarts
        /\ m.restartLoads <= MaxRestarts
        /\ \A i \in 1..Len(m.containers) : Len(m.containers[i]) <= MaxChildren
        /\ status' = m.status
        /\ crashed' = m.crashed
        /\ exitCode' = m.exitCode
        /\ exitText' = m.exitText
        /\ committedStatus' = m.committedStatus
        /\ restartCount' = m.restartCount
        /\ error' = m.error
        /\ module' = m.module
        /\ selfModule' = m.selfModule
        /\ timers' = m.timers
        /\ containers' = m.containers
        /\ burstOpen' = m.burstOpen
        /\ commits' = m.commits
        /\ restartLoads' = m.restartLoads
        /\ ev' = m.ev
        /\ UNCHANGED <<config, wasm, webGL, further>>

----------------------------------------------------------------------------
(* Capability probe *)

\* typeof WebAssembly: a string, written here with its quotes; the value
\* undefined (Undefined) is not a string
TypeofWebAssembly == IF wasm THEN "'object'" ELSE "'undefined'"

webAssemblySupported == TypeofWebAssembly # Undefined

webGLSupported == webGL

----------------------------------------------------------------------------
(* setStatus *)

\* variant: no comparison with the current status
SetStatus_NoGuard(m, s) ==
    [m EXCEPT !.status = s,
              !.timers = Append(@, [extra |-> m.burstOpen, last |-> "open"]),
              !.burstOpen = TRUE,
              !.commits = 0]

\* variant: the status is stored and no reaction is scheduled
SetStatus_NoTimer(m, s) ==
    IF m.status = s
    THEN m
    ELSE [m EXCEPT !.status = s, !.commits = 0]

SetStatus(m, s) ==
    IF m.status = s
    THEN m
    ELSE [m EXCEPT !.status = s,
                   !.timers = Append(@, [extra |-> m.burstOpen, last |-> "open"]),
                   !.burstOpen = TRUE,
                   !.commits = 0]

----------------------------------------------------------------------------
(* loadEmscriptenModule *)

\* variant: a load does not set the status to Loading
LoadEmscriptenModule_NoLoading(m, byRestart) ==
    IF ~webAssemblySupported
    THEN SetStatus([m EXCEPT !.error = ErrWasm], "Error")
    ELSE IF ~webGLSupported
    THEN SetStatus([m EXCEPT !.error = ErrWebGL], "Error")
    ELSE [m EXCEPT !.module = TRUE,
                   !.selfModule = "this",
                   !.exitCode = NoCode,
                   !.exitText = Undefined,
                   !.crashed = FALSE,
                   !.ev.factory = TRUE,
                   !.restartLoads = IF byRestart THEN @ + 1 ELSE @]

\* variant: publicAPI.crashed is not cleared by a load
LoadEmscriptenModule_KeepsCrashed(m, byRestart) ==
    IF ~webAssemblySupported
    THEN SetStatus([m EXCEPT !.error = ErrWasm], "Error")
    ELSE IF ~webGLSupported
    THEN SetStatus([m EXCEPT !.error = ErrWebGL], "Error")
    ELSE LET m1 == [m EXCEPT !.module = TRUE,
                             !.selfModule = "this",
                             !.exitCode = NoCode,
                             !.exitText = Undefined]
             m2 == SetStatus(m1, "Loading")
         IN [m2 EXCEPT !.ev.factory = TRUE,
                       !.restartLoads = IF byRestart THEN @ + 1 ELSE @]

LoadEmscriptenModule(m, byRestart) ==
    IF ~webAssemblySupported
    THEN SetStatus([m EXCEPT !.error = ErrWasm], "Error")
    ELSE IF ~webGLSupported
    THEN SetStatus([m EXCEPT !.error = ErrWebGL], "Error")
    ELSE LET m1 == [m EXCEPT !.module = TRUE,
                             !.selfModule = "this",
                             !.exitCode = NoCode,
                             !.exitText = Undefined,
                             !.crashed = FALSE]
             m2 == SetStatus(m1, "Loading")
         IN [m2 EXCEPT !.ev.factory = TRUE,
                       !.restartLoads = IF byRestart THEN @ + 1 ELSE @]

----------------------------------------------------------------------------
(* config.restart *)

\* variant: the limit compared with >=
Restart_AtLimit(m) ==
    LET m0 == [m EXCEPT !.ev.reload = (config.restartType = "ReloadPage")]
        m1 == [m0 EXCEPT !.restartCount = @ + 1]
    IN IF m1.restartCount >= config.restartLimit
       THEN SetStatus([m1 EXCEPT !.error = ErrHalt, !.ev.decision = "halt"], "Error")
       ELSE LoadEmscriptenModule([m1 EXCEPT !.ev.decision = "restart"], TRUE)

\* variant: the count compared before it is incremented (restartCount++)
Restart_CompareFirst(m) ==
    LET m0 == [m EXCEPT !.ev.reload = (config.restartType = "ReloadPage")]
        m1 == [m0 EXCEPT !.restartCount = @ + 1]
    IN IF m.restartCount > config.restartLimit
       THEN SetStatus([m1 EXCEPT !.error = ErrHalt, !.ev.decision = "halt"], "Error")
       ELSE LoadEmscriptenModule([m1 EXCEPT !.ev.decision = "restart"], TRUE)

Restart(m) ==
    LET m0 == [m EXCEPT !.ev.reload = (config.restartType = "ReloadPage")]
        m1 == [m0 EXCEPT !.restartCount = @ + 1]
    IN IF m1.restartCount > config.restartLimit
       THEN SetStatus([m1 EXCEPT !.error = ErrHalt, !.ev.decision = "halt"], "Error")
       ELSE LoadEmscriptenModule([m1 EXCEPT !.ev.decision = "restart"], TRUE)

----------------------------------------------------------------------------
(* The display dispatcher *)

\* what a presentation callback leaves of a container's children before
\* the dispatcher appends its element: the loader's default callbacks call
\* removeChildren(container); a callback the page supplied constructs its
\* element and leaves the container alone
Kept(children, name) ==
    IF name \in config.custom THEN children ELSE <<>>

\* managed mode: for (container of config.containerElements) the callback is
\* called and the element it returns is appended
ShowInContainers(m, name) ==
    [m EXCEPT !.containers = [i \in 1..Len(m.containers) |->
                                 Append(Kept(m.containers[i], name), name)],
              !.ev.show = name,
              !.ev.calls = Len(m.containers)]

\* external mode: the callback is called, with no container, if it is defined
ShowIfDefined(m, name) ==
    IF name \in config.shows
    THEN [m EXCEPT !.ev.show = name, !.ev.calls = 1]
    ELSE m

SetErrorContent(m) ==
    LET m1 == [m EXCEPT !.ev.render = "setErrorContent"]
    IN IF ~config.containerElements
       THEN ShowIfDefined(m1, "showError")
       ELSE ShowInContainers(m1, "showError")

SetLoaderContent(m) ==
    LET m1 == [m EXCEPT !.ev.render = "setLoaderContent"]
    IN IF ~config.containerElements
       THEN ShowIfDefined(m1, "showLoader")
       ELSE ShowInContainers(m1, "showLoader")

\* in external mode config.showCanvas is called unguarded: a TypeError when absent
SetCanvasContent(m) ==
    LET m1 == [m EXCEPT !.ev.render = "setCanvasContent"]
    IN IF ~config.containerElements
       THEN IF "showCanvas" \in config.shows
            THEN [m1 EXCEPT !.ev.show = "showCanvas", !.ev.calls = 1]
            ELSE [m1 EXCEPT !.ev.threw = TRUE]
       ELSE ShowInContainers(m1, "showCanvas")

\* variant: managed mode calls showExit for a clean exit too
SetExitContent_AlwaysShows(m) ==
    LET m1 == [m EXCEPT !.ev.render = "setExitContent"]
    IN IF m.status # "Exited"
       THEN m1
       ELSE IF ~config.containerElements
       THEN ShowIfDefined(m1, "showExit")
       ELSE ShowInContainers(m1, "showExit")

SetExitContent(m) ==
    LET m1 == [m EXCEPT !.ev.render = "setExitContent"]
    IN IF m.status # "Exited"
       THEN m1
       ELSE IF ~config.containerElements
       THEN ShowIfDefined(m1, "showExit")
       ELSE IF ~m.crashed
       THEN m1
       ELSE ShowInContainers(m1, "showExit")

----------------------------------------------------------------------------
(* handleStatusChange *)

StatusChanged(m) ==
    IF m.ev.threw
    THEN m
    ELSE IF config.statusChanged
    THEN [m EXCEPT !.ev.notified = m.status]
    ELSE m

\* variant: the condition read as (a || b) && c
ShouldRestart_Grouped(m) ==
    /\ \/ config.restartMode = "RestartOnExit"
       \/ config.restartMode = "RestartOnCrash"
    /\ m.crashed

ShouldRestart(m) ==
    \/ config.restartMode = "RestartOnExit"
    \/ config.restartMode = "RestartOnCrash" /\ m.crashed

\* the part of handleStatusChange after its early return
CommitStatus(m) ==
    LET m1 == [m EXCEPT !.committedStatus = m.status,
                        !.commits = @ + 1,
                        !.ev.committed = m.status]
    IN StatusChanged(
         CASE m1.status = "Error" -> SetErrorContent(m1)
           [] m1.status = "Loading" -> SetLoaderContent(m1)
           [] m1.status = "Running" -> SetCanvasContent(m1)
           [] m1.status = "Exited" ->
                  IF ShouldRestart(m1)
                  THEN Restart([m1 EXCEPT !.committedStatus = Undefined])
                  ELSE SetExitContent(m1)
           [] OTHER -> m1)

\* variant: no comparison with committedStatus
HandleStatusChange_Always(m) ==
    CommitStatus(m)

HandleStatusChange(m) ==
    IF m.committedStatus = m.status
    THEN m
    ELSE CommitStatus(m)

----------------------------------------------------------------------------
(* The callbacks attached to the module object *)

\* String.prototype.startsWith
StartsWith(text, prefix) ==
    /\ Len(text) >= Len(prefix)
    /\ SubSeq(text, 1, Len(prefix)) = prefix

ModuleSetStatusFn(m, text) ==
    IF StartsWith(text, "Running") THEN SetStatus(m, "Running") ELSE m

\* variant: the abort text is stored and crashed is not set
OnAbortFn_NoCrash(m, text) ==
    SetStatus([m EXCEPT !.exitText = text], "Exited")

OnAbortFn(m, text) ==
    SetStatus([m EXCEPT !.crashed = TRUE, !.exitText = text], "Exited")

ExceptionNames == {"ExitStatus", "RuntimeError"}

ExceptionToString(name) ==
    IF name = "ExitStatus"
    THEN "ExitStatus: Program terminated"
    ELSE "RuntimeError: unreachable"

\* variant: a clean exit clears crashed
QuitFn_ClearsCrashed(m, code, exception) ==
    IF exception = "ExitStatus"
    THEN SetStatus([m EXCEPT !.exitCode = code, !.crashed = FALSE], "Exited")
    ELSE SetStatus([m EXCEPT !.exitText = ExceptionToString(exception),
                             !.crashed = TRUE], "Exited")

QuitFn(m, code, exception) ==
    IF exception = "ExitStatus"
    THEN SetStatus([m EXCEPT !.exitCode = code], "Exited")
    ELSE SetStatus([m EXCEPT !.exitText = ExceptionToString(exception),
                             !.crashed = TRUE], "Exited")

----------------------------------------------------------------------------
(* Initial state: QtLoader(config) has returned *)

\* no further loader has been constructed
NoFurther == [made |-> FALSE, module |-> FALSE, restartLimit |-> 0]

\* the loader and its page
InitLoader ==
    /\ config \in {Normalize(raw) : raw \in RawConfigs}
    /\ webGL \in BOOLEAN
    /\ status = "Created"
    /\ crashed = FALSE
    /\ exitCode = NoCode
    /\ exitText = Undefined
    /\ committedStatus = Undefined
    /\ restartCount = 0
    /\ error = Undefined
    /\ module = FALSE
    /\ selfModule = Undefined
    /\ further = NoFurther
    /\ timers = <<[extra |-> FALSE, last |-> "open"]>>
    /\ containers = IF config.containerElements
                    THEN [i \in 1..MaxContainers |-> IF i = 1 THEN <<"prior">> ELSE <<>>]
                    ELSE <<>>
    /\ burstOpen = TRUE
    /\ commits = 0
    /\ restartLoads = 0
    /\ ev = EvNone("QtLoader")

\* a page that supplies a restartLimit of at least 1 or none (a limit of 0
\* is normalised like none), and in managed mode leaves the presentation
\* callbacks to the loader's defaults
UsualPage ==
    /\ config.supplied # 0
    /\ config.containerElements => config.custom = {}

\* a usual page on a host that has WebAssembly
Init ==
    /\ InitLoader
    /\ UsualPage
    /\ wasm = TRUE

\* a usual page on any host
InitAnyHost ==
    /\ InitLoader
    /\ UsualPage
    /\ wasm \in BOOLEAN

\* any page on a host that has WebAssembly
InitAnyPage ==
    /\ InitLoader
    /\ wasm = TRUE

----------------------------------------------------------------------------
(* Steps *)

\* the embedding page calls publicAPI.loadEmscriptenModule(createModule)
PageLoad ==
    Becomes(LoadEmscriptenModule(Handler("loadEmscriptenModule"), FALSE))

\* the hosted module calls module.setStatus(text)
StatusTexts == {"Running...", "Running", "Running (1/2)", "Run", "Downloading...", ""}

ModuleSetStatus ==
    /\ module
    /\ \E text \in StatusTexts :
          Becomes(ModuleSetStatusFn(
              Handler("module.setStatus"), text))

\* the hosted module calls module.onAbort(text): Emscripten's abort(what)
\* hands its argument through, abort() without one gives undefined
AbortTexts == {"abort", "", Undefined}

ModuleOnAbort ==
    /\ module
    /\ \E text \in AbortTexts :
          Becomes(OnAbortFn(
              [Handler("module.onAbort") EXCEPT !.ev.text = text], text))

\* the hosted module calls module.quit(code, exception)
QuitOp(exception) ==
    IF exception = "ExitStatus" THEN "module.quit:ExitStatus" ELSE "module.quit:exception"

ModuleQuit ==
    /\ module
    /\ \E code \in {0, 1}, exception \in ExceptionNames :
          Becomes(QuitFn(
              [Handler(QuitOp(exception)) EXCEPT
                   !.ev.code = IF exception = "ExitStatus" THEN code ELSE NoCode],
              code, exception))

\* the oldest timer expires: handleStatusChange runs
RunTimer ==
    /\ timers # <<>>
    /\ LET closed == [i \in 1..Len(timers) |-> Close(timers[i])]
           m == [Machine("timer") EXCEPT !.timers = Tail(closed),
                                         !.burstOpen = FALSE,
                                         !.ev.extra = closed[1].extra,
                                         !.ev.last = closed[1].last]
       IN Becomes(HandleStatusChange(m))

Next ==
    \/ PageLoad
    \/ ModuleSetStatus
    \/ ModuleOnAbort
    \/ ModuleQuit
    \/ RunTimer

\* one loader in a usual page, on a host whose WebGL support does not change
Spec == Init /\ [][Next]_vars

\* The page constructs a further QtLoader: its constructor runs the
\* assignment restartCount = 0 on the page-global restartCount.  The further
\* loader's publicAPI, committedStatus and timers are its own; of its
\* configuration the normalised restartLimit is kept, and its restartMode
\* is one that restarts (one that does not never takes FurtherRestart).
\* A loader constructed earlier the same way makes no further call.
ConstructLoader ==
    /\ restartCount' = 0
    /\ \E limit \in {Normalize(raw).restartLimit : raw \in RawConfigs} :
          further' = [made |-> TRUE, module |-> FALSE, restartLimit |-> limit]
    /\ ev' = EvNone("QtLoader")
    /\ UNCHANGED <<config, wasm, webGL, status, crashed, exitCode, exitText,
                   committedStatus, error, module, selfModule, timers,
                   containers, burstOpen, commits, restartLoads>>

\* loadEmscriptenModule of the further loader, as far as it acts on the
\* page globals self.error and self.module
FurtherLoadEmscriptenModule ==
    IF ~webAssemblySupported
    THEN error' = ErrWasm /\ UNCHANGED <<selfModule, further>>
    ELSE IF ~webGLSupported
    THEN error' = ErrWebGL /\ UNCHANGED <<selfModule, further>>
    ELSE /\ selfModule' = "further"
         /\ further' = [further EXCEPT !.module = TRUE]
         /\ UNCHANGED error

\* the page calls loadEmscriptenModule(createModule) of the further loader
FurtherPageLoad ==
    /\ further.made
    /\ FurtherLoadEmscriptenModule
    /\ ev' = EvNone("further.loadEmscriptenModule")
    /\ UNCHANGED <<config, wasm, webGL, status, crashed, exitCode, exitText,
                   committedStatus, restartCount, module, timers,
                   containers, burstOpen, commits, restartLoads>>

\* a timer of the further loader commits the Exited its module's
\* termination set, and its config.restart runs on the page-global
\* restartCount
FurtherRestart ==
    /\ further.module
    /\ restartCount < MaxRestarts
    /\ restartCount' = restartCount + 1
    /\ IF restartCount' > further.restartLimit
       THEN error' = ErrHalt /\ UNCHANGED <<selfModule, further>>
       ELSE FurtherLoadEmscriptenModule
    /\ ev' = EvNone("further.timer")
    /\ UNCHANGED <<config, wasm, webGL, status, crashed, exitCode, exitText,
                   committedStatus, module, timers,
                   containers, burstOpen, commits, restartLoads>>

\* the host stops handing out WebGL contexts (context limit reached, GPU
\* blacklisted): webGLSupported() answers false from now on
LoseWebGL ==
    /\ webGL
    /\ webGL' = FALSE
    /\ ev' = EvNone("loseWebGL")
    /\ UNCHANGED <<config, wasm, status, crashed, exitCode, exitText,
                   committedStatus, restartCount, error, module, selfModule,
                   further, timers, containers, burstOpen, commits, restartLoads>>

NextPage ==
    \/ Next
    \/ ConstructLoader
    \/ FurtherPageLoad
    \/ FurtherRestart
    \/ LoseWebGL

\* the external-mode pages that restart a crashed module in place with a
\* restartLimit of 1, observe statusChanged and supply no presentation
\* callback
InitPage ==
    /\ Init
    /\ config.restartMode = "RestartOnCrash"
    /\ ~config.containerElements
    /\ config.restartType = "RestartModule"
    /\ config.supplied = 1
    /\ config.statusChanged
    /\ config.custom = {}

\* one of these pages, which may construct further loaders, on a host that
\* may lose WebGL
SpecPage == InitPage /\ [][NextPage]_vars

\* one loader in the page, on any host
SpecAnyHost == InitAnyHost /\ [][Next]_vars

\* one loader in any page
SpecAnyPage == InitAnyPage /\ [][Next]_vars

\* the external-mode pages that supply a restartLimit of 1, observe
\* statusChanged and supply no presentation callback, with every
\* restartMode, on a host with WebGL
InitLive ==
    /\ Init
    /\ ~config.containerElements
    /\ config.restartType = "RestartModule"
    /\ config.supplied = 1
    /\ config.statusChanged
    /\ config.custom = {}
    /\ webGL

\* the event loop runs every expired timer: window.setTimeout(f, 0) tasks
\* are eventually run
SpecLive == InitLive /\ [][Next]_vars /\ WF_vars(RunTimer)

----------------------------------------------------------------------------
(* The debounced status commit *)

\* the content function handleStatusChange calls for a status
ContentFor(s) ==
    CASE s = "Error" -> "setErrorContent"
      [] s = "Loading" -> "setLoaderContent"
      [] s = "Running" -> "setCanvasContent"
      [] s = "Exited" -> "setExitContent"
      [] OTHER -> "none"

\* C1 as stated: when the reactions a burst scheduled run with no handler
\* in between, those after the first are no-ops, and one that invokes the
\* dispatcher renders the last status set in the burst.
C1_PerBurst ==
    ev.op = "timer" /\ ev.last # "overtaken" =>
        /\ ev.extra => ev.committed = "none"
        /\ ev.render # "none" => ev.render = ContentFor(ev.last)

\* C1 amended: a reaction that invokes the dispatcher renders the status
\* current when it runs, and at most one reaction takes effect per status
\* change: once a reaction has committed, every later one is a no-op until
\* setStatus changes the status again.  The reactions of a burst after the
\* first are no-ops unless the first committed Exited and restarted; the
\* next one then commits the Loading or Error the restart set.
C1_PerStatusChange ==
    /\ [](commits <= 1)
    /\ [][ev'.op = "timer" /\ ev'.render # "none" =>
             /\ ev'.render = ContentFor(status)
             /\ ev'.committed = status
             /\ commits' = 1]_vars
    /\ [](ev.op = "timer" /\ ev.last # "overtaken" /\ ev.extra /\ ev.committed # "none" =>
             /\ ev.last = "Exited"
             /\ ev.committed \in {"Loading", "Error"}
             /\ config.restartMode # "DoNotRestart")

\* a burst scheduled two reactions; the first committed the burst's last
\* status, and the second has just run as a no-op
C1_Witness ==
    /\ ev.op = "timer"
    /\ ev.extra
    /\ ev.committed = "none"
    /\ ev.last = status
    /\ committedStatus = "Exited"
    /\ commits = 1

\* C2 as stated: publicAPI.status is the committed status whenever the page
\* can read it.
C2_AlwaysCommitted ==
    status = committedStatus

\* C2 amended: publicAPI.status is the last status set, committed or not;
\* it is the committed status whenever no deferred reaction is pending.
C2_CommittedWhenIdle ==
    timers = <<>> => status = committedStatus

\* every reaction has run and the module is running
C2_Witness ==
    /\ timers = <<>>
    /\ status = "Running"
    /\ committedStatus = "Running"

----------------------------------------------------------------------------
(* The exit fields *)

\* C3 as stated, for the statuses the loader sets itself: crashed is false
\* in Created, in Loading and in Error (a restart-limit halt, a failed
\* capability check).
C3_CrashedOnlyExited ==
    status \in {"Created", "Loading", "Error"} => ~crashed

\* C3 amended: crashed is false whenever status is Created or Loading;
\* Error and Running keep the crashed of the last exit.
C3_CrashedNotLoading ==
    status \in {"Created", "Loading"} => ~crashed

\* a crash has been restarted: the new load cleared crashed
C3_Witness ==
    /\ status = "Loading"
    /\ ev.decision = "restart"
    /\ config.restartMode = "RestartOnCrash"
    /\ ~crashed

----------------------------------------------------------------------------
(* The restart controller *)

\* C4: a reaction that commits Exited calls config.restart if and only if
\* restartMode is RestartOnExit, or RestartOnCrash with crashed set.
C4_RestartRule ==
    [][ev'.op = "timer" /\ ev'.committed = "Exited" =>
         (ev'.decision # "none" <=>
             \/ config.restartMode = "RestartOnExit"
             \/ config.restartMode = "RestartOnCrash" /\ crashed)]_vars

\* a clean exit under RestartOnCrash, after earlier restarts, was committed
\* without a restart
C4_Witness ==
    /\ ev.op = "timer"
    /\ ev.committed = "Exited"
    /\ ev.decision = "none"
    /\ config.restartMode = "RestartOnCrash"
    /\ ~crashed
    /\ restartCount >= 1

Min(a, b) == IF a <= b THEN a ELSE b

CrashRestartConfig ==
    /\ config.restartMode = "RestartOnCrash"
    /\ config.restartType = "RestartModule"
    /\ webGL

\* C5: under RestartOnCrash and RestartModule with restartLimit L, every
\* restart decision follows an abnormal termination and adds one to
\* restartCount; while the new count is at most L it invokes the module
\* factory and sets Loading, and the next one (the (L+1)-th) halts in Error
\* with the halt message, so that restarts invoke the factory L times.
C5_CrashScenario ==
    /\ [](CrashRestartConfig => restartLoads = Min(restartCount, config.restartLimit))
    /\ [][CrashRestartConfig /\ ev'.decision # "none" =>
             /\ crashed
             /\ restartCount' = restartCount + 1
             /\ IF restartCount' <= config.restartLimit
                THEN /\ ev'.decision = "restart"
                     /\ ev'.factory
                     /\ status' = "Loading"
                     /\ restartLoads' = restartLoads + 1
                ELSE /\ ev'.decision = "halt"
                     /\ ~ev'.factory
                     /\ status' = "Error"
                     /\ error' = ErrHalt
                     /\ restartLoads' = restartLoads]_vars

\* the (L+1)-th abnormal termination has halted the loader after L restarts
C5_Witness ==
    /\ CrashRestartConfig
    /\ ev.decision = "halt"
    /\ restartCount = config.restartLimit + 1
    /\ restartLoads = config.restartLimit
    /\ status = "Error"
    /\ error = ErrHalt

\* C6 as stated: for a crashed exit under RestartOnCrash, a decision taken
\* with restartCount equal to restartLimit restarts, and one taken with
\* restartCount equal to restartLimit + 1 halts.
C6_BoundaryAsStated ==
    [][config.restartMode = "RestartOnCrash" /\ crashed /\ ev'.decision # "none" =>
         /\ restartCount = config.restartLimit => ev'.decision = "restart"
         /\ restartCount = config.restartLimit + 1 => ev'.decision = "halt"]_vars

\* C6 amended: the count is incremented before it is compared, so a
\* decision taken with restartCount equal to restartLimit - 1 restarts and
\* one taken with restartCount equal to restartLimit halts (status Error,
\* module factory not invoked).
C6_Boundary ==
    [][config.restartMode = "RestartOnCrash" /\ crashed /\ ev'.decision # "none" =>
         /\ restartCount = config.restartLimit - 1 =>
                /\ ev'.decision = "restart"
                /\ webGL => ev'.factory /\ status' = "Loading"
         /\ restartCount >= config.restartLimit =>
                /\ ev'.decision = "halt"
                /\ status' = "Error"
                /\ ~ev'.factory]_vars

\* the last restart the limit allows: the count has just reached the limit
C6_Witness ==
    /\ config.restartMode = "RestartOnCrash"
    /\ ev.decision = "restart"
    /\ restartCount = config.restartLimit
    /\ status = "Loading"
    /\ ev.factory

\* C7: restartCount never decreases, and once a restart has halted the
\* loader no restart invokes the module factory again.  (The claim's
\* further clause, that the status then stays Error, is not part of this
\* formula.)
C7_CountOnlyGrows ==
    /\ [][restartCount' >= restartCount]_vars
    /\ [][error = ErrHalt => restartLoads' = restartLoads]_vars

\* C8: a reaction that commits a status and runs to its end calls the
\* statusChanged observer with that status.
C8_NotifiesCommitted ==
    ev.op = "timer" /\ ev.committed # "none" /\ config.statusChanged /\ ~ev.threw =>
        ev.notified = ev.committed

----------------------------------------------------------------------------
(* The termination callbacks *)

AbnormalOps == {"module.onAbort", "module.quit:exception"}

\* C9 as stated: an abnormal termination leaves crashed set, exitCode
\* undefined and exitText set, and exitCode and exitText are never both set.
C9_AbnormalAsStated ==
    /\ ev.op \in AbnormalOps =>
           crashed /\ exitCode = NoCode /\ exitText # Undefined
    /\ ~(exitCode # NoCode /\ exitText # Undefined)

\* C9 amended: an abnormal termination sets crashed and status Exited,
\* stores the text it was given in exitText (an abort without a text leaves
\* exitText undefined) and leaves exitCode as it was; exitCode and exitText
\* can both be set, and whenever exitText is set crashed is set.
C9_Abnormal ==
    /\ [][ev'.op \in AbnormalOps =>
             /\ crashed'
             /\ status' = "Exited"
             /\ exitText' = (IF ev'.op = "module.onAbort"
                             THEN ev'.text
                             ELSE ExceptionToString("RuntimeError"))
             /\ exitCode' = exitCode]_vars
    /\ [](exitText # Undefined => crashed)

\* an abort after a clean quit of the same load cycle: both fields are set
C9_Witness ==
    /\ ev.op = "module.onAbort"
    /\ crashed
    /\ exitCode = 0
    /\ exitText = "abort"
    /\ status = "Exited"

\* C10 as stated: a clean exit with code c leaves crashed false,
\* exitCode = c and status Exited, whatever preceded it.
C10_CleanAsStated ==
    ev.op = "module.quit:ExitStatus" =>
        ~crashed /\ exitCode = ev.code /\ status = "Exited"

\* C10 amended: a clean exit with code c leaves exitCode = c and status
\* Exited and does not touch crashed or exitText: crashed is false unless
\* an abnormal termination of the same load cycle has set it.
C10_Clean ==
    /\ [][ev'.op = "module.quit:ExitStatus" =>
             /\ exitCode' = ev'.code
             /\ status' = "Exited"
             /\ crashed' = crashed
             /\ exitText' = exitText]_vars
    /\ [][crashed' /\ ~crashed => ev'.op \in AbnormalOps]_vars

\* a clean quit with code 1 after an abort of the same load cycle
C10_Witness ==
    /\ ev.op = "module.quit:ExitStatus"
    /\ ev.code = 1
    /\ exitCode = 1
    /\ crashed
    /\ exitText = "abort"
    /\ status = "Exited"

----------------------------------------------------------------------------
(* One decision per termination *)

TerminationOps == {"module.onAbort", "module.quit:ExitStatus", "module.quit:exception"}

\* C11: the termination callbacks of one burst lead to at most one restart
\* decision.  Only a termination callback makes the status Exited; a
\* decision is made by a reaction that finds the status Exited and leaves it
\* Loading or Error, it adds exactly one to restartCount and invokes the
\* module factory at most once; and the further reactions the burst
\* scheduled make no decision.
C11_OneDecision ==
    /\ [][status # "Exited" /\ status' = "Exited" => ev'.op \in TerminationOps]_vars
    /\ [][ev'.decision # "none" =>
             /\ ev'.op = "timer"
             /\ status = "Exited"
             /\ status' \in {"Loading", "Error"}
             /\ restartCount' = restartCount + 1
             /\ restartLoads' <= restartLoads + 1
             /\ ev'.factory <=> restartLoads' = restartLoads + 1]_vars
    /\ [](ev.op = "timer" /\ ev.extra /\ ev.last # "overtaken" => ev.decision = "none")
    /\ [][ev.decision # "none" /\ ev'.op = "timer" => ev'.decision = "none"]_vars

\* module.onAbort and module.quit fired in one burst of the load cycle that
\* exhausted the limit, and the one decision taken for them has halted
C11_Witness ==
    /\ ev.op = "timer"
    /\ ev.decision = "halt"
    /\ restartCount = config.restartLimit + 1
    /\ exitText # Undefined
    /\ exitCode # NoCode

----------------------------------------------------------------------------
(* The capability checks of a load *)

\* C12: a loadEmscriptenModule call on a host without WebAssembly or
\* without WebGL sets the status Error with the matching fixed text, does
\* not invoke the module factory and leaves crashed, exitCode, exitText and
\* restartCount as they were; and a reaction that commits Error makes no
\* restart decision.
C12_FailsFast ==
    /\ [][ev'.op = "loadEmscriptenModule" /\ (~wasm \/ ~webGL) =>
             /\ status' = "Error"
             /\ error' \in (IF wasm THEN {} ELSE {ErrWasm}) \cup
                           (IF webGL THEN {} ELSE {ErrWebGL})
             /\ ~ev'.factory
             /\ crashed' = crashed
             /\ exitCode' = exitCode
             /\ exitText' = exitText
             /\ restartCount' = restartCount]_vars
    /\ [](ev.op = "timer" /\ ev.committed = "Error" => ev.decision = "none")

----------------------------------------------------------------------------
(* The exit presentation *)

\* C13 as stated: a reaction that commits Exited with crashed false invokes
\* no showExit and changes no container, in either mode; showExit is
\* invoked only when crashed is set.
C13_ShowExitNeedsCrash ==
    /\ [][ev'.op = "timer" /\ ev'.committed = "Exited" /\ ~crashed =>
             /\ ev'.show # "showExit"
             /\ containers' = containers]_vars
    /\ [](ev.show = "showExit" => crashed)

\* C13 amended: in managed mode a reaction that commits Exited without
\* restarting calls showExit, once per container, if and only if crashed is
\* set, and changes no container otherwise; in external mode it calls the
\* showExit the page supplied once, crashed or not, and no other callback.
C13_ManagedNeedsCrash ==
    [][ev'.op = "timer" /\ ev'.committed = "Exited" /\ ev'.decision = "none" =>
         IF config.containerElements
         THEN IF crashed
              THEN ev'.show = "showExit" /\ ev'.calls = Len(containers)
              ELSE ev'.show = "none" /\ ev'.calls = 0 /\ containers' = containers
         ELSE /\ containers' = containers
              /\ IF "showExit" \in config.shows
                 THEN ev'.show = "showExit" /\ ev'.calls = 1
                 ELSE ev'.show = "none" /\ ev'.calls = 0]_vars

\* managed mode: a clean exit of the running application has been
\* committed and the containers still hold the canvas
C13_Witness ==
    /\ ev.op = "timer"
    /\ ev.committed = "Exited"
    /\ ev.render = "setExitContent"
    /\ config.containerElements
    /\ ~crashed
    /\ exitCode = 0
    /\ ev.show = "none"
    /\ \A i \in 1..Len(containers) : containers[i] = <<"showCanvas">>

----------------------------------------------------------------------------
(* External mode *)

\* the presentation callback of a status
CallbackFor(s) ==
    CASE s = "Error" -> "showError"
      [] s = "Loading" -> "showLoader"
      [] s = "Running" -> "showCanvas"
      [] s = "Exited" -> "showExit"
      [] OTHER -> "none"

\* C14: in external mode a reaction that commits Loading, Running, Error or
\* (without restarting) Exited raises no error; it invokes the status's
\* callback exactly once if the page supplied it, and no callback if not.
C14_AbsentIsNoOp ==
    /\ ev.op = "timer"
    /\ ~config.containerElements
    /\ ev.committed \in {"Loading", "Running", "Error", "Exited"}
    /\ ev.decision = "none"
    => /\ ~ev.threw
       /\ IF CallbackFor(ev.committed) \in config.shows
          THEN ev.show = CallbackFor(ev.committed) /\ ev.calls = 1
          ELSE ev.show = "none" /\ ev.calls = 0

----------------------------------------------------------------------------
(* Managed mode *)

\* C15: in managed mode a reaction that commits Loading, Running or Error
\* calls the status's callback once per container, and leaves in every
\* container exactly the one element the callback returned for it.
C15_OneSurfacePerContainer ==
    [][/\ ev'.op = "timer"
       /\ config.containerElements
       /\ ev'.committed \in {"Loading", "Running", "Error"}
       => /\ ev'.show = CallbackFor(ev'.committed)
          /\ ev'.calls = Len(containers)
          /\ Len(containers') = Len(containers)
          /\ \A i \in 1..Len(containers) :
                 containers'[i] = <<CallbackFor(ev'.committed)>>]_vars

----------------------------------------------------------------------------
(* setStatus with the current status *)

\* a step whose handler calls setStatus with the value the status has
SameStatusCall ==
    \/ ev'.op \in TerminationOps /\ status = "Exited"
    \/ ev'.op = "module.setStatus" /\ status = "Running"
    \/ /\ ev'.op = "loadEmscriptenModule"
       /\ status = (IF webAssemblySupported /\ webGLSupported THEN "Loading" ELSE "Error")

\* C16: a setStatus call with the value the status already has changes
\* neither the status nor the committed status, schedules no reaction and
\* invokes no dispatcher; and a status value is committed, and so rendered,
\* at most once for as long as the status keeps it.
C16_SameStatusOnce ==
    /\ [][SameStatusCall =>
             /\ status' = status
             /\ Len(timers') = Len(timers)
             /\ committedStatus' = committedStatus
             /\ commits' = commits
             /\ ev'.render = "none"]_vars
    /\ [](commits <= 1)
    /\ [][ev'.op = "timer" /\ commits = 1 /\ commits' = 1 => ev'.render = "none"]_vars

\* module.quit has called setStatus("Exited") right after module.onAbort did,
\* while the application was running: one reaction is pending
C16_Witness ==
    /\ ev.op = "module.quit:ExitStatus"
    /\ status = "Exited"
    /\ exitText # Undefined
    /\ committedStatus = "Running"
    /\ Len(timers) = 1
    /\ commits = 0

----------------------------------------------------------------------------
(* Restart by reloading the page *)

\* C17: a restart that reloads the page does nothing else: it leaves
\* restartCount as it was, does not invoke the module factory and does not
\* move the status to Loading or Error.
C17_ReloadOnly ==
    [][ev'.reload =>
         /\ config.restartType = "ReloadPage"
         /\ restartCount' = restartCount
         /\ ~ev'.factory
         /\ status' \notin {"Loading", "Error"}]_vars

----------------------------------------------------------------------------
(* The restart limit in force *)

\* C18: the limit in force is the restartLimit the page supplied, 0
\* included: restarts invoke the module factory at most that many times and
\* a decision restarts only while the count is within it; 10 is the limit
\* when none was supplied.
C18_LimitAsSupplied ==
    /\ config.supplied = NoCode => config.restartLimit = DefaultRestartLimit
    /\ config.supplied # NoCode =>
           /\ restartLoads <= config.supplied
           /\ ev.decision = "restart" => restartCount <= config.supplied

----------------------------------------------------------------------------
(* Several loaders in one page *)

FurtherOps == {"QtLoader", "further.loadEmscriptenModule", "further.timer"}

\* C19: constructing a further loader in the page, and a load or a restart
\* of it, change neither the restartCount, nor the error text, nor the
\* current module of this one.
C19_LoadersIndependent ==
    [][ev'.op \in FurtherOps =>
         /\ restartCount' = restartCount
         /\ error' = error
         /\ selfModule' = selfModule]_vars

----------------------------------------------------------------------------
(* Every status is eventually committed *)

\* a pending timer has no step in the model: its reaction would commit
\* Exited and count a restart beyond MaxRestarts
TimerCannotRun ==
    /\ timers # <<>>
    /\ status = "Exited"
    /\ committedStatus # "Exited"
    /\ ShouldRestart(Machine("timer"))
    /\ restartCount = MaxRestarts

\* C20: with the timers eventually run, a status that is set and not
\* committed is eventually committed or superseded by a later status change,
\* also after a restart has cleared committedStatus; and when no timer is
\* pending the committed status is the status.  The premise that the timers
\* are run fails in the model only where the reaction would count a restart
\* beyond MaxRestarts.
C20_EventuallyCommitted ==
    /\ \A s \in Statuses :
          (status = s /\ committedStatus # s) ~>
              (committedStatus = status \/ status # s \/ TimerCannotRun)
    /\ [](timers = <<>> => committedStatus = status)
    /\ [](timers # <<>> /\ ~TimerCannotRun => ENABLED RunTimer)

\* the Loading set by a restart, which cleared committedStatus, has been committed
C20_Witness ==
    /\ ev.op = "timer"
    /\ ev.committed = "Loading"
    /\ committedStatus = "Loading"
    /\ status = "Loading"
    /\ restartCount = 1
    /\ restartLoads = 1
    /\ timers = <<>>

====
